---- MODULE Spec2Model ----
(***************************************************************************)
(* Model of beetsplug/notify.py: the NotifyPlugin collects imported albums *)
(* (album_imported) and, on cli_exit, composes one bounded notification    *)
(* (build_message, resize_artwork) and hands it to Apprise                 *)
(* (send_notification).  Python strings are TLC strings; the collaborators *)
(* (Apprise, ArtResizer, the file system) answer nondeterministically.     *)
(***************************************************************************)
EXTENDS Integers, Sequences, FiniteSets, TLC

VARIABLES
    imported_albums,  \* NotifyPlugin.imported_albums, the class-level list
    config,           \* self.config, read-only after __init__
    run_items,        \* albums recorded since the previous cli_exit (history)
    host,             \* the latest callback and how it came back to the host
    \* What the latest callback did, kept until the next callback:
    batch,            \* list handed to send_notification
    message,          \* what build_message returned
    registered,       \* len(apobj) after the URLs were added
    notify_calls,     \* the apobj.notify calls made
    log,              \* the self._log records written
    tmp_files,        \* the temporary files created
    raised            \* the exceptions its collaborators raised, caught or not

vars == <<imported_albums, config, run_items, host, batch, message,
          registered, notify_calls, log, tmp_files, raised>>

----------------------------------------------------------------------------
(* Bounds of the model *)

MaxBatch == 3

MaxTruncate == 2

----------------------------------------------------------------------------
(* Python values *)

None == "<None>"

Truthy(v) == v # None /\ v # ""

Min(a, b) == IF a <= b THEN a ELSE b

Max(a, b) == IF a >= b THEN a ELSE b

Digit(d) == SubSeq("0123456789", d + 1, d + 1)

RECURSIVE IntToStr(_)
IntToStr(n) == IF n < 10 THEN Digit(n) ELSE IntToStr(n \div 10) \o Digit(n % 10)

(* s[:k], Python slicing: a negative k counts from the end *)
SliceTo(s, k) ==
    IF k >= 0 THEN SubSeq(s, 1, Min(k, Len(s)))
              ELSE SubSeq(s, 1, Max(Len(s) + k, 0))

RECURSIVE Join(_)
Join(lines) ==
    IF lines = <<>> THEN ""
    ELSE IF Len(lines) = 1 THEN lines[1]
    ELSE lines[1] \o "\n" \o Join(Tail(lines))

----------------------------------------------------------------------------
(* Albums and configuration *)

ArtPath(kind, data, utf8) == [kind |-> kind, data |-> data, utf8 |-> utf8]

Album(artist, name, year, artpath) ==
    [albumartist |-> artist, album |-> name, year |-> year, artpath |-> artpath]

Albums ==
    { Album("A", "X", 2020, ArtPath("bytes", "/a.jpg", TRUE)),
      Album("B", "Y", 2021, ArtPath("None", "", TRUE)),
      Album("C", "Z", 7, ArtPath("bytes", "/c.jpg", FALSE)) }

UrlLists == { <<>>, <<"json://h">>, <<"json://h", "bad://x">> }

BodyMaxLengths == { 1, 2, 3, 14, 1024 }

MaxSizes == { 0, 5 }

FileSizes == { 3, 9 }

DefaultBodyMaxLength == 1024

(* Every URL list, truncate and artwork setting at the default body_maxlength,
   and every body_maxlength with every truncate under one URL *)
Configs ==
    [ apprise_urls : UrlLists,
      truncate : 0 .. MaxTruncate,
      body_maxlength : {DefaultBodyMaxLength},
      artwork : BOOLEAN,
      artwork_maxsize : MaxSizes,
      show_first_art : BOOLEAN ]
    \cup
    [ apprise_urls : {<<"json://h">>},
      truncate : 0 .. MaxTruncate,
      body_maxlength : BodyMaxLengths,
      artwork : {TRUE},
      artwork_maxsize : {0},
      show_first_art : {TRUE} ]

(* What the collaborators answer during one cli_exit *)
FileEnvs ==
    [ getsize : {"ok"}, size : FileSizes, resize : {"ok"} ]
    \cup [ getsize : {"OSError"}, size : {0}, resize : {"ok"} ]
    \cup [ getsize : {"ok"}, size : {9}, resize : {"ArtResizerError"} ]

Envs(cfg) ==
    [ add : [1 .. Len(cfg.apprise_urls) -> BOOLEAN],
      file : FileEnvs,
      notify : { "True", "False", "AppriseError" } ]

----------------------------------------------------------------------------
(* Exceptions: NoExc means the call returned normally *)

NoExc == "no exception"

ExceptionClasses ==
    { "OSError", "UnicodeDecodeError", "ArtResizerError", "AppriseError" }

(* a handler that names one class only lets the others through *)
except_OSError(exc) == exc = "OSError"

(* `except Exception`: every class above derives from Exception *)
except_Exception(exc) == exc \in ExceptionClasses

LogRecord(level, msg) == [level |-> level, msg |-> msg]

----------------------------------------------------------------------------
(* resize_artwork *)

RECURSIVE LastIndex(_, _, _)
LastIndex(s, c, i) ==
    IF i = 0 THEN 0
    ELSE IF SubSeq(s, i, i) = c THEN i
    ELSE LastIndex(s, c, i - 1)

(* os.path.splitext(path)[1] *)
splitext_ext(path) ==
    LET dot == LastIndex(path, ".", Len(path))
        sep == LastIndex(path, "/", Len(path))
    IN  IF dot > sep + 1 THEN SubSeq(path, dot, Len(path)) ELSE ""

(* tempfile.NamedTemporaryFile(suffix=ext, delete=False).name *)
NamedTemporaryFile(ext) == "/tmp/tmpq1" \o ext

resize_artwork(art_path, max_filesize, env) ==
    IF env.file.getsize = "OSError"
    THEN [exc |-> "OSError", path |-> None, tmp_files |-> {}]
    ELSE IF max_filesize = 0 \/ env.file.size <= max_filesize
    THEN [exc |-> NoExc, path |-> art_path, tmp_files |-> {}]
    ELSE LET tmp_file == NamedTemporaryFile(splitext_ext(art_path))
         IN  IF env.file.resize = "ok"
             THEN [exc |-> NoExc, path |-> tmp_file, tmp_files |-> {tmp_file}]
             ELSE [exc |-> env.file.resize, path |-> None,
                   tmp_files |-> {tmp_file}]

----------------------------------------------------------------------------
(* build_message *)

(* the plural test turned around *)
album_word_inverted(n) == IF n # 1 THEN "album" ELSE "albums"

album_word(n) == IF n = 1 THEN "album" ELSE "albums"

build_title(n) == "Beets: " \o IntToStr(n) \o " " \o album_word(n) \o " imported"

body_line(album) ==
    album.albumartist \o " - " \o album.album
        \o " (" \o IntToStr(album.year) \o ")"

(* lines 146-153: the statements inside the try *)
process_artwork(album, cfg, env) ==
    IF album.artpath.kind = "bytes" /\ ~album.artpath.utf8
    THEN [exc |-> "UnicodeDecodeError", path |-> None, tmp_files |-> {}]
    ELSE resize_artwork(album.artpath.data, cfg.artwork_maxsize, env)

(* the condition of the if on lines 139-144 *)
wants_artwork(i, album, cfg) ==
    /\ i = 0
    /\ cfg.artwork
    /\ cfg.show_first_art
    /\ album.artpath.kind # "None"
    /\ album.artpath.data # ""

(* the try opened before the line is appended: a failure loses the line *)
loop_body_try_too_wide(st, i, album, cfg, env) ==
    LET lines == Append(st.body_lines, body_line(album))
    IN  IF ~wants_artwork(i, album, cfg)
        THEN [st EXCEPT !.body_lines = lines]
        ELSE LET r == process_artwork(album, cfg, env)
             IN  IF r.exc = NoExc
                 THEN [st EXCEPT !.body_lines = lines,
                                 !.artwork_path = r.path,
                                 !.tmp_files = @ \cup r.tmp_files]
                 ELSE [st EXCEPT !.tmp_files = @ \cup r.tmp_files,
                                 !.raised = @ \cup {r.exc},
                                 !.log = Append(@, LogRecord("debug",
                                     "failed to process artwork: " \o r.exc))]

(* one pass of the for loop body over shown[i], i counted from 0 *)
loop_body(st, i, album, cfg, env) ==
    LET lines == Append(st.body_lines, body_line(album))
    IN  IF ~wants_artwork(i, album, cfg)
        THEN [st EXCEPT !.body_lines = lines]
        ELSE LET r == process_artwork(album, cfg, env)
             IN  IF r.exc = NoExc
                 THEN [st EXCEPT !.body_lines = lines,
                                 !.artwork_path = r.path,
                                 !.tmp_files = @ \cup r.tmp_files]
                 ELSE IF except_Exception(r.exc)
                 THEN [st EXCEPT !.body_lines = lines,
                                 !.tmp_files = @ \cup r.tmp_files,
                                 !.raised = @ \cup {r.exc},
                                 !.log = Append(@, LogRecord("debug",
                                     "failed to process artwork: " \o r.exc))]
                 ELSE [st EXCEPT !.body_lines = lines,
                                 !.tmp_files = @ \cup r.tmp_files,
                                 !.raised = @ \cup {r.exc},
                                 !.exc = r.exc]

RECURSIVE for_loop(_, _, _, _, _)
for_loop(st, i, shown, cfg, env) ==
    IF i >= Len(shown) \/ st.exc # NoExc THEN st
    ELSE for_loop(loop_body(st, i, shown[i + 1], cfg, env), i + 1, shown, cfg, env)

(* the comparison off by one: a "...and 0 more" line when all are shown *)
add_remaining_off_by_one(body, n, max_albums) ==
    IF n >= max_albums
    THEN body \o "\n...and " \o IntToStr(n - max_albums) \o " more"
    ELSE body

(* the truncation message, lines 161-163 *)
add_remaining(body, n, max_albums) ==
    IF n > max_albums
    THEN body \o "\n...and " \o IntToStr(n - max_albums) \o " more"
    ELSE body

(* the length cap, lines 166-168 *)
cap_body(body, max_length) ==
    IF Len(body) > max_length
    THEN SliceTo(body, max_length - 3) \o "..."
    ELSE body

build_message(albums, cfg, env) ==
    LET max_albums == Min(Len(albums), cfg.truncate)
        st0 == [body_lines |-> <<>>, artwork_path |-> None, tmp_files |-> {},
                log |-> <<>>, raised |-> {}, exc |-> NoExc]
        st == for_loop(st0, 0, SubSeq(albums, 1, max_albums), cfg, env)
        assembled == add_remaining(Join(st.body_lines), Len(albums), max_albums)
    IN  [exc |-> st.exc,
         title |-> build_title(Len(albums)),
         assembled |-> assembled,
         body |-> cap_body(assembled, cfg.body_maxlength),
         artwork_path |-> st.artwork_path,
         log |-> st.log,
         tmp_files |-> st.tmp_files,
         raised |-> st.raised]

NoMessage ==
    [composed |-> FALSE, title |-> "", assembled |-> "", body |-> "",
     artwork_path |-> None]

----------------------------------------------------------------------------
(* send_notification *)

(* the for loop on lines 99-101: one warning per URL that apobj.add refuses *)
RECURSIVE add_warnings(_, _, _)
add_warnings(urls, add, i) ==
    IF i > Len(urls) THEN <<>>
    ELSE (IF add[i] THEN <<>>
          ELSE <<LogRecord("warning", "failed to add apprise URL")>>)
         \o add_warnings(urls, add, i + 1)

(* len(apobj) once every URL has been offered to apobj.add *)
apobj_len(urls, add) == Cardinality({ i \in 1 .. Len(urls) : add[i] })

(* the call on lines 109-112: attach is passed only for a truthy path *)
notify_call(title, body, artwork_path) ==
    IF Truthy(artwork_path)
    THEN [title |-> title, body |-> body, has_attach |-> TRUE,
          attach |-> artwork_path]
    ELSE [title |-> title, body |-> body, has_attach |-> FALSE,
          attach |-> None]

(* a second attempt when apobj.notify answers False *)
deliver_with_retry(m, n, env) ==
    LET call == notify_call(m.title, m.body, m.artwork_path)
    IN  IF env.notify = "True"
        THEN [exc |-> NoExc, notify_calls |-> <<call>>, raised |-> {},
              log |-> <<LogRecord("info",
                  "notification sent to " \o IntToStr(n) \o " service(s)")>>]
        ELSE IF env.notify = "False"
        THEN [exc |-> NoExc, notify_calls |-> <<call, call>>, raised |-> {},
              log |-> <<LogRecord("error", "notification failed")>>]
        ELSE [exc |-> NoExc, notify_calls |-> <<call>>,
              raised |-> {env.notify},
              log |-> <<LogRecord("error",
                  "notification error: " \o env.notify)>>]

(* lines 108-120: the try around apobj.notify and what it logs *)
deliver(m, n, env) ==
    LET call == notify_call(m.title, m.body, m.artwork_path)
    IN  IF env.notify = "True"
        THEN [exc |-> NoExc, notify_calls |-> <<call>>, raised |-> {},
              log |-> <<LogRecord("info",
                  "notification sent to " \o IntToStr(n) \o " service(s)")>>]
        ELSE IF env.notify = "False"
        THEN [exc |-> NoExc, notify_calls |-> <<call>>, raised |-> {},
              log |-> <<LogRecord("error", "notification failed")>>]
        ELSE IF except_Exception(env.notify)
        THEN [exc |-> NoExc, notify_calls |-> <<call>>,
              raised |-> {env.notify},
              log |-> <<LogRecord("error",
                  "notification error: " \o env.notify)>>]
        ELSE [exc |-> env.notify, notify_calls |-> <<call>>,
              raised |-> {env.notify}, log |-> <<>>]

send_notification(albums, cfg, env) ==
    LET urls == cfg.apprise_urls
        m == build_message(albums, cfg, env)
        msg == [composed |-> TRUE, title |-> m.title, assembled |-> m.assembled,
                body |-> m.body, artwork_path |-> m.artwork_path]
        n == apobj_len(urls, env.add)
        warned == m.log \o add_warnings(urls, env.add, 1)
        d == deliver(m, n, env)
    IN  IF urls = <<>>
        THEN [exc |-> NoExc, batch |-> <<>>, message |-> NoMessage,
              registered |-> 0, notify_calls |-> <<>>, tmp_files |-> {},
              raised |-> {},
              log |-> <<LogRecord("debug", "no apprise URLs configured")>>]
        ELSE IF m.exc # NoExc
        THEN [exc |-> m.exc, batch |-> albums, message |-> NoMessage,
              registered |-> 0, notify_calls |-> <<>>,
              tmp_files |-> m.tmp_files, raised |-> m.raised, log |-> m.log]
        ELSE IF n = 0
        THEN [exc |-> NoExc, batch |-> albums, message |-> msg,
              registered |-> 0, notify_calls |-> <<>>,
              tmp_files |-> m.tmp_files, raised |-> m.raised,
              log |-> Append(warned, LogRecord("error",
                  "no valid apprise URLs configured"))]
        ELSE [exc |-> d.exc, batch |-> albums, message |-> msg,
              registered |-> n, notify_calls |-> d.notify_calls,
              tmp_files |-> m.tmp_files, raised |-> m.raised \cup d.raised,
              log |-> warned \o d.log]

----------------------------------------------------------------------------
(* The plugin's listeners *)

Init ==
    /\ imported_albums = <<>>
    /\ config \in Configs
    /\ run_items = <<>>
    /\ batch = <<>>
    /\ message = NoMessage
    /\ registered = 0
    /\ notify_calls = <<>>
    /\ log = <<>>
    /\ tmp_files = {}
    /\ raised = {}
    /\ host = "idle"

(* what notify_on_cli_exit does once the batch is known to be non-empty *)
cli_exit_result(albums, cfg, env) ==
    LET r == send_notification(albums, cfg, env)
    IN  [r EXCEPT !.log = <<LogRecord("debug",
            "sending notification for " \o IntToStr(Len(albums))
                \o " album(s)")>> \o @]

(* a callback that composes nothing, registers nothing and sends nothing *)
nothing_done ==
    /\ batch' = <<>>
    /\ message' = NoMessage
    /\ registered' = 0
    /\ notify_calls' = <<>>
    /\ tmp_files' = {}
    /\ raised' = {}

album_imported(album) ==
    /\ Len(imported_albums) < MaxBatch
    /\ imported_albums' = Append(imported_albums, album)
    /\ run_items' = Append(run_items, album)
    /\ host' = "album_imported returned"
    /\ nothing_done
    /\ log' = <<>>
    /\ UNCHANGED config

(* lines 78-79: nothing was ever imported *)
notify_on_cli_exit_empty ==
    /\ imported_albums = <<>>
    /\ run_items' = <<>>
    /\ host' = "cli_exit returned"
    /\ nothing_done
    /\ log' = <<>>
    /\ UNCHANGED <<imported_albums, config>>

(* lines 81-84 *)
notify_on_cli_exit(env) ==
    /\ imported_albums # <<>>
    /\ run_items' = <<>>
    /\ \E r \in {cli_exit_result(imported_albums, config, env)} :
           /\ batch' = r.batch
           /\ message' = r.message
           /\ registered' = r.registered
           /\ notify_calls' = r.notify_calls
           /\ log' = r.log
           /\ tmp_files' = r.tmp_files
           /\ raised' = r.raised
           /\ host' = IF r.exc = NoExc THEN "cli_exit returned"
                                        ELSE "cli_exit raised " \o r.exc
    /\ UNCHANGED <<imported_albums, config>>

Next ==
    \/ \E album \in Albums : album_imported(album)
    \/ notify_on_cli_exit_empty
    \/ \E env \in Envs(config) : notify_on_cli_exit(env)

Spec == Init /\ [][Next]_vars

----------------------------------------------------------------------------
(* Vocabulary of the properties *)

Composed == message.composed

AfterExit == host \notin {"idle", "album_imported returned"}

HasArt(album) == album.artpath.kind # "None" /\ album.artpath.data # ""

EndsWith(s, suffix) ==
    /\ Len(s) >= Len(suffix)
    /\ SubSeq(s, Len(s) - Len(suffix) + 1, Len(s)) = suffix

StartsWith(s, prefix) ==
    /\ Len(s) >= Len(prefix)
    /\ SubSeq(s, 1, Len(prefix)) = prefix

(* the lines of a text, as s.split("\n") gives them *)
RECURSIVE SplitLines(_, _, _)
SplitLines(s, i, cur) ==
    IF i > Len(s) THEN <<cur>>
    ELSE IF SubSeq(s, i, i) = "\n" THEN <<cur>> \o SplitLines(s, i + 1, "")
    ELSE SplitLines(s, i + 1, cur \o SubSeq(s, i, i))

Lines(s) == SplitLines(s, 1, "")

ItemLine(artist, name, year) ==
    artist \o " - " \o name \o " (" \o IntToStr(year) \o ")"

ArtworkFailed == raised \cap {"OSError", "UnicodeDecodeError", "ArtResizerError"} # {}

----------------------------------------------------------------------------
(* C1: the body build_message returns is never longer than body_maxlength,
   and a body that was cut ends in "...".  Stated as claimed, for every
   body_maxlength > 0. *)
C1_BodyWithinMaxLength ==
    Composed =>
        /\ Len(message.body) <= config.body_maxlength
        /\ Len(message.assembled) > config.body_maxlength
               => EndsWith(message.body, "...")

(* C2: when the artwork step does not fail (nothing raised, and the path of
   item 0 is decodable), build_message returns an attachment exactly when
   artwork and show_first_art are set and item 0 of the batch has a non-empty
   artpath, whatever truncate is.  Stated as claimed. *)
C2_AttachmentIffFirstItemHasArt ==
    (Composed /\ ~ArtworkFailed /\ batch[1].artpath.utf8) =>
        (Truthy(message.artwork_path)
            <=> /\ batch # <<>>
                /\ config.artwork
                /\ config.show_first_art
                /\ HasArt(batch[1]))

(* C4: the body assembled before the length cap lists the first min(N, T)
   albums of the batch, one line each in append order, followed by a line
   "...and K more" exactly when K = N - min(N, T) > 0.  An empty listing
   (T = 0) is the empty text, which the newline before the "more" line leaves
   as one empty line. *)
C4_AssembledBody ==
    Composed =>
        LET N == Len(batch)
            D == Min(N, config.truncate)
            K == N - D
            ls == Lines(message.assembled)
            listing == IF K > 0 THEN SubSeq(ls, 1, Len(ls) - 1) ELSE ls
        IN  /\ K > 0 => ls[Len(ls)] = "...and " \o IntToStr(K) \o " more"
            /\ K = 0 => \A i \in 1 .. Len(ls) : ~StartsWith(ls[i], "...and ")
            /\ IF D = 0 THEN listing = <<"">>
               ELSE listing = [i \in 1 .. D |->
                       ItemLine(batch[i].albumartist, batch[i].album,
                                batch[i].year)]

(* three albums with truncate 2: two item lines, then "...and 1 more" *)
C4_Witness ==
    /\ Composed
    /\ Len(batch) = 3
    /\ config.truncate = 2
    /\ batch[1].albumartist = "A" /\ batch[2].albumartist = "B"
    /\ message.assembled = "A - X (2020)\nB - Y (2021)\n...and 1 more"

(* C5 as claimed: the title is exactly "<N> <album|albums> imported" *)
C5_TitleAsClaimed ==
    Composed =>
        message.title = IntToStr(Len(batch)) \o " "
            \o (IF Len(batch) = 1 THEN "album" ELSE "albums") \o " imported"

(* C5: the title is exactly "Beets: <N> <word> imported", N the size of the
   full batch, word "album" exactly when N = 1 and "albums" otherwise. *)
C5_Title ==
    Composed =>
        message.title = "Beets: " \o IntToStr(Len(batch)) \o " "
            \o (IF Len(batch) = 1 THEN "album" ELSE "albums") \o " imported"

(* three albums, of which fewer are displayed *)
C5_Witness ==
    /\ Composed
    /\ Len(batch) = 3
    /\ config.truncate < 3
    /\ message.title = "Beets: 3 albums imported"

(* C3: the batch handed to composition at a cli_exit is exactly the albums
   recorded since the previous cli_exit, in order.  Stated as claimed. *)
C3_BatchIsThisRun ==
    [][(imported_albums' = imported_albums /\ message'.composed)
           => batch' = run_items]_vars

(* C6: apobj.notify is not called by a cli_exit of a run that recorded no
   album, nor with no URL configured, nor when apobj.add accepted none; a run
   that recorded no album composes and registers nothing; when every URL is
   refused an error is logged.  Stated as claimed. *)
C6_NoDeliverWithoutBatchOrTargets ==
    [][imported_albums' = imported_albums =>
           /\ (run_items = <<>> \/ config.apprise_urls = <<>> \/ registered' = 0)
                  => notify_calls' = <<>>
           /\ run_items = <<>> => (~message'.composed /\ registered' = 0)
           /\ (message'.composed /\ registered' = 0)
                  => \E i \in 1 .. Len(log') :
                         /\ log'[i].level = "error"
                         /\ log'[i].msg = "no valid apprise URLs configured"]_vars

(* C7: a cli_exit that composed a message for a non-empty batch and got at
   least one URL accepted calls apobj.notify exactly once, with the composed
   title and body, whether notify answers True, False or raises; each refused
   URL only logs a warning; attach is passed exactly when build_message
   returned an artwork path, and is that path. *)
C7_DeliverExactlyOnce ==
    (AfterExit /\ Composed /\ batch # <<>> /\ registered > 0) =>
        /\ Len(notify_calls) = 1
        /\ notify_calls[1].title = message.title
        /\ notify_calls[1].body = message.body
        /\ notify_calls[1].has_attach <=> Truthy(message.artwork_path)
        /\ notify_calls[1].has_attach
               => notify_calls[1].attach = message.artwork_path
        /\ Cardinality({ i \in 1 .. Len(log) : log[i].level = "warning" })
               = Len(config.apprise_urls) - registered

(* one URL refused, one accepted, and notify raised: still one call *)
C7_Witness ==
    /\ AfterExit /\ Composed /\ registered = 1
    /\ Len(config.apprise_urls) = 2
    /\ "AppriseError" \in raised
    /\ Len(notify_calls) = 1
    /\ notify_calls[1].has_attach

(* what the collaborators answer when the artwork step succeeds *)
ArtworkSucceeds(cfg, env) ==
    /\ env \in Envs(cfg)
    /\ env.file.getsize = "ok"
    /\ env.file.resize = "ok"

(* C8: when the artwork step of the first album raises (size lookup, decode
   or resize), build_message still returns, with no attachment and with the
   title and body it returns for the same batch and configuration when the
   step succeeds, or when artwork is switched off; the notification, if
   delivered, carries no attachment. *)
C8_ArtworkFailureOmitsAttachment ==
    (AfterExit /\ ArtworkFailed) =>
        /\ Composed
        /\ message.artwork_path = None
        /\ \A env \in Envs(config) :
               LET ok == build_message(batch, config, env)
               IN  (ArtworkSucceeds(config, env) /\ ok.raised = {}) =>
                       /\ message.title = ok.title
                       /\ message.body = ok.body
        /\ LET off == build_message(batch, [config EXCEPT !.artwork = FALSE],
                          CHOOSE env \in Envs(config) : TRUE)
           IN  /\ message.title = off.title
               /\ message.body = off.body
        /\ \A i \in 1 .. Len(notify_calls) : ~notify_calls[i].has_attach

(* the resizer raised on the first album's artwork and the message went out *)
C8_Witness ==
    /\ AfterExit /\ Composed
    /\ "ArtResizerError" \in raised
    /\ Len(batch) >= 2
    /\ batch[1].artpath.utf8
    /\ Len(notify_calls) = 1
    /\ ~notify_calls[1].has_attach

(* C9: every album_imported and cli_exit callback returns normally to the
   host, whatever the collaborators did. *)
C9_CallbacksReturn ==
    host \in {"idle", "album_imported returned", "cli_exit returned"}

(* a URL refused, the resizer raised and notify raised, and cli_exit returned *)
C9_Witness ==
    /\ host = "cli_exit returned"
    /\ {"ArtResizerError", "AppriseError"} \subseteq raised
    /\ registered < Len(config.apprise_urls)

(* C10: every temporary file a cli_exit creates is handed to apobj.notify as
   the attachment of a call of the same cli_exit.  Stated as claimed. *)
C10_TmpFilesHandedToSink ==
    \A f \in tmp_files :
        \E i \in 1 .. Len(notify_calls) :
            notify_calls[i].has_attach /\ notify_calls[i].attach = f

====
